---- MODULE Spec2Model ----
(***************************************************************************)
(* Real-time market-data stream multiplexer of the LiveStreamingData       *)
(* dashboard: the WebSocketManager (services/websocketManager.ts), the     *)
(* helpers it uses, and the ChartDataProvider candle aggregator.           *)
(*                                                                         *)
(* Time is abstracted: a timer that has been armed and not cleared may     *)
(* fire at any later step.  One JavaScript task (a caller's call, a socket *)
(* event with the promise reactions it triggers, a timer callback) is one  *)
(* atomic action.                                                          *)
(***************************************************************************)
EXTENDS Integers, Sequences, FiniteSets, TLC

(* ------------------------------ bounds --------------------------------- *)
MaxTimers == 1          \* armed-and-forgotten timers of one kind at a time

MaxLen == 2             \* candles in the chart series
MaxBars == 3             \* bars fed past the first MAX_DATA_POINTS buckets
MaxAttempt == 10         \* attempts passed to calculateBackoffDelay are 0 .. MaxAttempt
MaxTick == 2            \* event times are 0, 500, .. , 500 * MaxTick

(* ------------------------- program constants --------------------------- *)
MAX_RECONNECT_ATTEMPTS == 5
maxConcurrentStreams == 50
retry == 3
MAX_KLINES_LIMIT == 1000
JitterMax == 1000
MAX_DATA_POINTS == 500

(* ------------------------------ inputs --------------------------------- *)
Symbols == {"BTCUSDT", "ETHUSDT"}
Intervals == {"1m", "5m"}
Handlers == {"h1", "h2"}
TradeHandlers == {"t1"}
OrderBookHandlers == {"o1"}
CloseCodes == {1000, 1006}

Null == "NULL"

(* ------------------------ Stream Name Codec ---------------------------- *)
toLowerCase(s) ==
  CASE s = "BTCUSDT" -> "btcusdt"
    [] s = "ETHUSDT" -> "ethusdt"
    [] OTHER -> s

toUpperCase(s) ==
  CASE s = "btcusdt" -> "BTCUSDT"
    [] s = "ethusdt" -> "ETHUSDT"
    [] OTHER -> s

\* A stream name "<symbol>@<kind>[_<interval>]" is the triple <<symbol, kind, interval>>.
generateStreamName(symbol, interval) == <<toLowerCase(symbol), "kline", interval>>
tradeStreamNameOf(symbol) == <<toLowerCase(symbol), "trade", "">>
tickerStreamNameOf(symbol) == <<toLowerCase(symbol), "ticker", "">>
miniTickerStreamNameOf(symbol) == <<toLowerCase(symbol), "miniTicker", "">>
depthStreamNameOf(symbol) == <<toLowerCase(symbol), "depth5@100ms", "">>

\* stream.split('@')[0].toUpperCase()
streamSymbol(stream) == toUpperCase(stream[1])

(* --------------------------- Map helpers ------------------------------- *)
MapSet(map, key, value) ==
  [k \in (DOMAIN map) \cup {key} |-> IF k = key THEN value ELSE map[k]]

MapDelete(map, keys) == [k \in (DOMAIN map) \ keys |-> map[k]]

EmptyMap == [k \in {} |-> "none"]

(* ----------------------------- state ----------------------------------- *)
VARIABLES
  activeStreams,        \* Set<string>
  messageHandlers,      \* Map<string, MessageHandler>
  tradeHandlers,        \* Map<string, TradeHandler>
  orderBookHandlers,    \* Map<string, OrderBookHandler>
  wsState,              \* this.ws: Null, or the readyState of the socket
  wsStreams,            \* the streams the socket's URL was built from
  wsOrigin,             \* which connect() call waits for the socket's promise
  wsSettled,            \* that promise has been resolved or rejected
  wsTimeout,            \* the socket's connectionTimeout timer is armed
  reconnectAttempts,
  isReconnecting,
  connectionInProgress,
  reconnectTimeout,     \* the reconnection timer is armed
  heartbeatInterval,    \* the heartbeat interval is armed
  timers,               \* armed timers nothing keeps a handle to, by kind
  notified,             \* statuses passed to the connection handlers by the last step
  created,              \* the last step called new WebSocket(...)
  started,              \* the last step started a reconnection attempt
  resolved,             \* the last step resolved a promise returned by connect()
  liveDropped,          \* sockets this.ws no longer refers to that are CONNECTING or OPEN
  delivered,            \* <<key, handler>> invoked by the last step
  threw,                \* the last step let an exception escape
  lastOp,               \* the last step
  watch,                \* the registrations <<stream, handler>> under observation
  cancelled,            \* those of watch removed by unsubscribe and not registered since
  terminal,             \* max attempts were reported and no caller has called since
  normalClosed,         \* a caller closed the connection and no caller has called since
  candlestickData,      \* ChartDataProvider state
  interval,             \* interval of the chart subscription
  lastTick,             \* the tick last passed to updateData
  restState,            \* the REST call: idle, inflight, waiting, resolved, rejected
  retryCount,           \* config.retryCount of the call
  issued,               \* HTTP requests issued for the call
  lastResponse,         \* the last response or error the interceptor saw
  restDelay,            \* the delay the interceptor is waiting for
  rejection,            \* the value the call rejected with
  requestedLimit,       \* the limit argument of getKlines, -1 for another call
  sentLimit,            \* params.limit of the last HTTP request issued, -1 if none
  backoffArgs,          \* attempt, baseDelay, maxDelay of calculateBackoffDelay
  backoffRandom,        \* Math.random() * 1000, rounded down
  backoffDelay,         \* the delay computed, -1 before the first one
  currentSubscription,  \* ChartDataProvider state: <<symbol, interval>> or none
  isUsingFallback,      \* ChartDataProvider state
  fallbackAttempts,     \* ChartDataProvider state
  errorTimeouts,        \* subscriptions whose 15 s errorTimeout is armed
  clearChecks,          \* subscriptions whose 2 s connection check is pending
  fallbackConnections,  \* streams of FallbackWebSocketManager.connections
  fallbackDead,         \* those of them whose socket has closed
  fallbackClosing,      \* streams with a socket closed by disconnect, close event pending
  fallbackReconnects,   \* streams whose reconnect timer is armed
  closedOnPurpose,      \* streams a caller disconnected and has not subscribed since
  selection,            \* EnhancedDashboard: the pair and interval last loaded
  pendingHistory,       \* selections whose getKlines promise has not settled
  seriesOf,             \* the selection whose history setData applied last
  isMounted,            \* EnhancedDashboard: isMountedRef.current
  productSubscriptions, \* EnhancedWebSocketManager: Map<`SYMBOL_interval`, handler>
  enhancedStreams,      \* EnhancedWebSocketManager.activeStreams
  enhancedHandlers,     \* EnhancedWebSocketManager.messageHandlers
  enhancedWs,           \* EnhancedWebSocketManager.ws: Null or its readyState
  enhancedWsStreams     \* the streams that socket's URL was built from

mgrVars == <<activeStreams, messageHandlers, tradeHandlers, orderBookHandlers,
             wsState, wsStreams, wsOrigin, wsSettled, wsTimeout,
             reconnectAttempts, isReconnecting, connectionInProgress,
             reconnectTimeout, heartbeatInterval, timers, notified, created,
             started, resolved, liveDropped, delivered, threw, lastOp, watch, cancelled, terminal,
             normalClosed>>
aggVars == <<candlestickData, interval, lastTick>>
restVars == <<restState, retryCount, issued, lastResponse, restDelay, rejection,
              requestedLimit, sentLimit>>
backoffVars == <<backoffArgs, backoffRandom, backoffDelay>>
fallbackVars == <<currentSubscription, isUsingFallback, fallbackAttempts,
                  errorTimeouts, clearChecks, fallbackConnections, fallbackDead,
                  fallbackClosing, fallbackReconnects, closedOnPurpose>>
dashVars == <<selection, pendingHistory, seriesOf, isMounted>>
enhancedVars == <<productSubscriptions, enhancedStreams, enhancedHandlers, enhancedWs,
                  enhancedWsStreams>>
nonMgrVars == <<aggVars, restVars, backoffVars, fallbackVars, dashVars, enhancedVars>>
nonAggVars == <<mgrVars, restVars, backoffVars, fallbackVars, dashVars, enhancedVars>>
nonRestVars == <<mgrVars, aggVars, backoffVars, fallbackVars, dashVars, enhancedVars>>
nonBackoffVars == <<mgrVars, aggVars, restVars, fallbackVars, dashVars, enhancedVars>>
nonEnhancedVars == <<mgrVars, aggVars, restVars, backoffVars, fallbackVars, dashVars>>
vars == <<mgrVars, aggVars, restVars, backoffVars, fallbackVars, dashVars, enhancedVars>>

TimerKinds == {"retry", "catch", "to_subscribe", "to_reconnect", "to_other"}

(* The fields of the manager as one record, so that the methods can be     *)
(* composed the way the code calls them.                                   *)
Cur ==
  [activeStreams |-> activeStreams, messageHandlers |-> messageHandlers,
   tradeHandlers |-> tradeHandlers, orderBookHandlers |-> orderBookHandlers,
   wsState |-> wsState, wsStreams |-> wsStreams, wsOrigin |-> wsOrigin,
   wsSettled |-> wsSettled, wsTimeout |-> wsTimeout,
   reconnectAttempts |-> reconnectAttempts, isReconnecting |-> isReconnecting,
   connectionInProgress |-> connectionInProgress,
   reconnectTimeout |-> reconnectTimeout, heartbeatInterval |-> heartbeatInterval,
   timers |-> timers, notified |-> <<>>, created |-> FALSE, started |-> FALSE,
   resolved |-> FALSE, liveDropped |-> liveDropped, gaveUp |-> FALSE]

\* Arms a timer nobody keeps a handle to.  At most MaxTimers timers of one
\* kind are kept apart; a further one is merged with those already armed.
setTimeout(s, kind) ==
  IF s.timers[kind] >= MaxTimers THEN s ELSE [s EXCEPT !.timers[kind] = @ + 1]

clearOne(s, kind) == [s EXCEPT !.timers[kind] = @ - 1]

(* --------------------------- the manager ------------------------------- *)
notifyConnectionHandlers(s, status) == [s EXCEPT !.notified = Append(@, status)]

isConnected(s) == s.wsState = "OPEN"

\* The reaction a connect() caller chained on the rejected promise.
Rejected(s, origin) ==
  CASE origin = "subscribe" -> setTimeout(s, "retry")
    [] origin = "reconnect" -> setTimeout(s, "catch")
    [] OTHER -> s

staleKind(origin) ==
  CASE origin = "subscribe" -> "to_subscribe"
    [] origin = "reconnect" -> "to_reconnect"
    [] OTHER -> "to_other"

\* disconnect() without the call of this.ws.close
dropSocket_noclose(readyState) == readyState

\* disconnect(): the readyState the socket is left in when this.ws is set to
\* null; close() moves an OPEN or CONNECTING socket to CLOSING at once.
dropSocket(readyState) ==
  IF readyState \in {"OPEN", "CONNECTING"} THEN "CLOSING" ELSE readyState

disconnect(s, notify) ==
  LET s1 == [s EXCEPT !.heartbeatInterval = FALSE, !.reconnectTimeout = FALSE]
      \* the connectionTimeout of the dropped socket is not cleared
      s2 == IF s1.wsState # Null /\ s1.wsTimeout
              THEN setTimeout(s1, staleKind(s1.wsOrigin)) ELSE s1
      s3 == [s2 EXCEPT !.wsState = Null, !.wsStreams = {}, !.wsOrigin = "none",
                       !.wsSettled = FALSE, !.wsTimeout = FALSE,
                       !.liveDropped = IF dropSocket(s2.wsState) \in {"OPEN", "CONNECTING"}
                                         THEN @ + 1 ELSE @]
      s4 == [s3 EXCEPT !.isReconnecting = FALSE, !.connectionInProgress = FALSE]
  IN IF notify THEN notifyConnectionHandlers(s4, "disconnected") ELSE s4

connect(s, origin) ==
  IF isConnected(s) /\ s.activeStreams # {} THEN [s EXCEPT !.resolved = TRUE]
  ELSE IF s.connectionInProgress THEN [s EXCEPT !.resolved = TRUE]
  ELSE LET s1 == notifyConnectionHandlers([s EXCEPT !.connectionInProgress = TRUE],
                                          "connecting")
           s2 == disconnect(s1, FALSE)
       IN IF s2.activeStreams = {}
            THEN [s2 EXCEPT !.connectionInProgress = FALSE, !.resolved = TRUE]
            ELSE [s2 EXCEPT !.wsState = "CONNECTING",
                            !.wsStreams = s2.activeStreams,
                            !.wsOrigin = origin, !.wsSettled = FALSE,
                            !.wsTimeout = TRUE, !.created = TRUE]

immediateConnect(s) ==
  IF ~isConnected(s) /\ ~s.connectionInProgress THEN connect(s, "immediate") ELSE s

attemptReconnection(s) ==
  IF s.reconnectAttempts >= MAX_RECONNECT_ATTEMPTS
    THEN [notifyConnectionHandlers(s, "error") EXCEPT !.gaveUp = TRUE]
  ELSE IF s.isReconnecting \/ s.connectionInProgress THEN s
  ELSE [s EXCEPT !.isReconnecting = TRUE, !.reconnectAttempts = @ + 1,
                 !.reconnectTimeout = TRUE, !.started = TRUE]

setupHeartbeat(s) == [s EXCEPT !.heartbeatInterval = TRUE]

handleOpen(s) ==
  setupHeartbeat(notifyConnectionHandlers(
    [s EXCEPT !.reconnectAttempts = 0, !.isReconnecting = FALSE], "connected"))

handleClose(s, code) ==
  IF code # 1000 /\ ~s.isReconnecting /\ s.activeStreams # {}
    THEN attemptReconnection(s)
    ELSE notifyConnectionHandlers(s, "disconnected")

handleError(s) == notifyConnectionHandlers(s, "error")

\* ws.onopen
onopen(s) ==
  LET s1 == [s EXCEPT !.wsTimeout = FALSE, !.connectionInProgress = FALSE,
                      !.wsState = "OPEN"]
  IN [handleOpen(s1) EXCEPT !.wsSettled = TRUE, !.wsOrigin = "none",
                            !.resolved = ~s.wsSettled]

\* ws.onerror, followed by the reaction to the rejected promise
onerror(s) ==
  LET s1 == handleError([s EXCEPT !.wsTimeout = FALSE, !.connectionInProgress = FALSE])
  IN IF s1.wsSettled THEN s1
     ELSE Rejected([s1 EXCEPT !.wsSettled = TRUE, !.wsOrigin = "none"], s1.wsOrigin)

\* ws.onclose
onclose(s, code) ==
  handleClose([s EXCEPT !.wsTimeout = FALSE, !.connectionInProgress = FALSE,
                        !.wsState = "CLOSED"], code)

\* the callback of a connectionTimeout timer; owner is the connect() call that armed it
connectionTimeout(s, owner) ==
  IF s.wsState = "CONNECTING"
    THEN Rejected([s EXCEPT !.wsState = "CLOSING", !.connectionInProgress = FALSE], owner)
    ELSE s

(* ----------------------- Subscription Registry ------------------------- *)
\* Variant of subscribe that clears every stream, not only the symbol's.
subscribeRegistry_clearall(s, symbol, intv, handler) ==
  LET klineStreamName == generateStreamName(symbol, intv)
      tradeStreamName == tradeStreamNameOf(symbol)
  IN [s EXCEPT !.messageHandlers = MapSet(MapSet(EmptyMap, klineStreamName, handler),
                                          tradeStreamName, handler),
               !.activeStreams = {klineStreamName, tradeStreamName}]

subscribeRegistry(s, symbol, intv, handler) ==
  LET klineStreamName == generateStreamName(symbol, intv)
      tradeStreamName == tradeStreamNameOf(symbol)
      symbolStreams == {st \in s.activeStreams : streamSymbol(st) = toUpperCase(symbol)}
      mh1 == MapDelete(s.messageHandlers, symbolStreams)
      mh2 == MapSet(MapSet(mh1, klineStreamName, handler), tradeStreamName, handler)
  IN [s EXCEPT !.messageHandlers = mh2,
               !.activeStreams = (@ \ symbolStreams) \cup {klineStreamName, tradeStreamName}]

subscribe(s, symbol, intv, handler) ==
  connect(subscribeRegistry(s, symbol, intv, handler), "subscribe")

\* Variants of unsubscribe: one forgets the trade stream, one the handlers.
unsubscribeRegistry_klineonly(s, symbol, intv) ==
  LET klineStreamName == generateStreamName(symbol, intv)
  IN [s EXCEPT !.messageHandlers = MapDelete(@, {klineStreamName}),
               !.activeStreams = @ \ {klineStreamName}]

unsubscribeRegistry_keephandlers(s, symbol, intv) ==
  [s EXCEPT !.activeStreams = @ \ {generateStreamName(symbol, intv),
                                    tradeStreamNameOf(symbol)}]

unsubscribeRegistry(s, symbol, intv) ==
  LET klineStreamName == generateStreamName(symbol, intv)
      tradeStreamName == tradeStreamNameOf(symbol)
  IN [s EXCEPT !.messageHandlers = MapDelete(@, {klineStreamName, tradeStreamName}),
               !.activeStreams = @ \ {klineStreamName, tradeStreamName}]

unsubscribe(s, symbol, intv) ==
  LET s1 == unsubscribeRegistry(s, symbol, intv)
  IN IF s1.activeStreams = {} THEN disconnect(s1, TRUE) ELSE immediateConnect(s1)


subscribeToOrderBook(s, symbol, handler) ==
  LET streamName == depthStreamNameOf(symbol)
      s1 == [s EXCEPT !.orderBookHandlers = MapSet(@, toUpperCase(symbol), handler)]
  IN IF Cardinality(s1.activeStreams) >= maxConcurrentStreams
          /\ streamName \notin s1.activeStreams
       THEN s1
       ELSE immediateConnect([s1 EXCEPT !.activeStreams = @ \cup {streamName}])

subscribeToTrades(s, symbol, handler) ==
  LET streamName == tradeStreamNameOf(symbol)
      s1 == [s EXCEPT !.tradeHandlers = MapSet(@, toUpperCase(symbol), handler)]
  IN IF Cardinality(s1.activeStreams) >= maxConcurrentStreams
          /\ streamName \notin s1.activeStreams
       THEN s1
       ELSE immediateConnect([s1 EXCEPT !.activeStreams = @ \cup {streamName}])

bulkStreams(symbols) ==
  {tickerStreamNameOf(symbol) : symbol \in symbols}
    \cup {miniTickerStreamNameOf(symbol) : symbol \in symbols}

subscribeBulk(s, symbols, handler) ==
  LET names == bulkStreams(symbols)
      s1 == [s EXCEPT !.messageHandlers =
                          [k \in (DOMAIN @) \cup names |->
                              IF k \in names THEN handler ELSE @[k]],
                      !.activeStreams = @ \cup names]
  IN connect(s1, "bulk")

unsubscribeBulk(s, symbols) ==
  LET names == bulkStreams(symbols)
      s1 == [s EXCEPT !.messageHandlers = MapDelete(@, names),
                      !.activeStreams = @ \ names]
  IN IF s1.activeStreams # {} THEN immediateConnect(s1) ELSE disconnect(s1, TRUE)

(* -------------------------- Message Decoder ---------------------------- *)
\* An inbound frame.  text: "nonjson" is not parseable, "null" parses to a
\* value without properties, "bare" is an object without stream/data,
\* "envelope" is {stream, data}.  e is the discriminator of data ("" when
\* absent), s its symbol, i the interval of data.k, k whether data.k is there.
Frame(text, e, s, i, k) == [text |-> text, e |-> e, s |-> s, i |-> i, k |-> k]

Frames ==
  {Frame(text, "", "", "", FALSE) : text \in {"nonjson", "null", "bare", "envelope"}}
    \cup {Frame("envelope", "kline", s, i, TRUE) : s \in Symbols, i \in Intervals}
    \cup {Frame("envelope", "kline", s, "", FALSE) : s \in Symbols}
    \cup {Frame("envelope", e, s, "", FALSE) :
            e \in {"trade", "24hrTicker", "24hrMiniTicker", "depthUpdate"}, s \in Symbols}

isValidJSON(frame) == frame.text # "nonjson"

Invoke(map, name, key) ==
  IF key \in DOMAIN map THEN {<<name, key, map[key]>>} ELSE {}

\* The body of the try block: the handlers it invokes, and whether it raises.
handleMessageTry(s, frame) ==
  IF ~isValidJSON(frame) THEN [invoked |-> {}, raised |-> FALSE]
  ELSE IF frame.text = "null" THEN [invoked |-> {}, raised |-> TRUE]
  ELSE IF frame.text = "bare" THEN [invoked |-> {}, raised |-> FALSE]
  ELSE CASE frame.e = "kline" ->
              IF ~frame.k THEN [invoked |-> {}, raised |-> TRUE]
              ELSE [invoked |-> Invoke(s.messageHandlers, "messageHandlers",
                                       generateStreamName(frame.s, frame.i)),
                    raised |-> FALSE]
         [] frame.e = "trade" ->
              [invoked |-> Invoke(s.messageHandlers, "messageHandlers",
                                  tradeStreamNameOf(frame.s))
                            \cup Invoke(s.tradeHandlers, "tradeHandlers", frame.s),
               raised |-> FALSE]
         [] frame.e = "24hrTicker" ->
              [invoked |-> Invoke(s.messageHandlers, "messageHandlers",
                                  <<toLowerCase(frame.s), "ticker", "">>),
               raised |-> FALSE]
         [] frame.e = "24hrMiniTicker" ->
              [invoked |-> Invoke(s.messageHandlers, "messageHandlers",
                                  <<toLowerCase(frame.s), "miniticker", "">>),
               raised |-> FALSE]
         [] frame.e = "depthUpdate" ->
              [invoked |-> Invoke(s.orderBookHandlers, "orderBookHandlers", frame.s),
               raised |-> FALSE]
         [] OTHER -> [invoked |-> {}, raised |-> FALSE]

\* Variant without the JSON check and the catch.
handleMessage_nocatch(s, frame) ==
  LET r == handleMessageTry(s, frame)
  IN [invoked |-> r.invoked, raised |-> r.raised \/ ~isValidJSON(frame)]

\* try { ... } catch (error) { console.error(...) }
handleMessage(s, frame) ==
  [invoked |-> handleMessageTry(s, frame).invoked, raised |-> FALSE]

\* transformKlineData(message), with timestamp = message.k.t
klineCandle(k) ==
  [timestamp |-> k.t, open |-> k.o, high |-> k.h, low |-> k.l, close |-> k.c,
   volume |-> k.v]

\* realtimeCandle of the trade branch
tradeCandle(trade) ==
  [timestamp |-> trade.T, open |-> trade.p, high |-> trade.p, low |-> trade.p,
   close |-> trade.p, volume |-> trade.q]

(* ------------------------- Candle Aggregator --------------------------- *)
\* a || b on numbers
Or(a, b) == IF a = 0 THEN b ELSE a

Max2(a, b) == IF a >= b THEN a ELSE b
Min2(a, b) == IF a <= b THEN a ELSE b

getIntervalMs(intv) ==
  CASE intv = "1s" -> 1000
    [] intv = "5s" -> 5000
    [] intv = "1m" -> 60000
    [] intv = "5m" -> 300000
    [] intv = "15m" -> 900000
    [] intv = "1h" -> 3600000
    [] intv = "4h" -> 14400000
    [] intv = "1d" -> 86400000
    [] OTHER -> 60000

maxCandles(intv) ==
  IF intv \in {"1s", "5s"} THEN 300
  ELSE IF intv \in {"1m", "5m"} THEN 500
  ELSE IF intv \in {"15m", "1h"} THEN 1000
  ELSE 2000

\* updatedData.splice(0, updatedData.length - limit)
KeepLast(data, limit) ==
  IF Len(data) > limit THEN SubSeq(data, Len(data) - limit + 1, Len(data)) ELSE data

\* The updateData(newCandle) of the provider that falls back to the
\* per-topic manager: a candle is new when it is more than 500 ms later.
updateDataFallback(prevData, newCandle) ==
  IF Len(prevData) = 0 THEN <<newCandle>>
  ELSE
    LET lastCandle == prevData[Len(prevData)]
    IN IF newCandle.timestamp > lastCandle.timestamp + 500
         THEN KeepLast(Append(prevData,
                  [timestamp |-> newCandle.timestamp,
                   open |-> Or(newCandle.open, newCandle.close),
                   high |-> Or(newCandle.high, newCandle.close),
                   low |-> Or(newCandle.low, newCandle.close),
                   close |-> newCandle.close,
                   volume |-> Or(newCandle.volume, 0)]), 200)
         ELSE [prevData EXCEPT ![Len(prevData)] =
                  [timestamp |-> lastCandle.timestamp,
                   open |-> lastCandle.open,
                   high |-> Max2(Max2(lastCandle.high, newCandle.close), Or(newCandle.high, 0)),
                   \* newCandle.low || Infinity
                   low |-> IF newCandle.low = 0
                             THEN Min2(lastCandle.low, newCandle.close)
                             ELSE Min2(Min2(lastCandle.low, newCandle.close), newCandle.low),
                   close |-> newCandle.close,
                   volume |-> Max2(lastCandle.volume, Or(newCandle.volume, 0))]]

\* updateData deciding a new candle by elapsed time, as the provider above does
updateData_elapsed(prevData, newCandle, intv) == updateDataFallback(prevData, newCandle)

\* ChartDataProvider.updateData(newCandle, interval): the state updater
updateData(prevData, newCandle, intv) ==
  IF Len(prevData) = 0 THEN <<newCandle>>
  ELSE
    LET lastCandle == prevData[Len(prevData)]
        intervalMs == getIntervalMs(intv)
        effectiveIntervalMs == IF intv = "5s" THEN 5000 ELSE intervalMs
        candleStart == (newCandle.timestamp \div effectiveIntervalMs) * effectiveIntervalMs
        lastCandleStart == (lastCandle.timestamp \div effectiveIntervalMs) * effectiveIntervalMs
    IN IF candleStart > lastCandleStart
         THEN KeepLast(Append(prevData,
                  [timestamp |-> candleStart,
                   open |-> Or(newCandle.open, newCandle.close),
                   high |-> Or(newCandle.high, newCandle.close),
                   low |-> Or(newCandle.low, newCandle.close),
                   close |-> newCandle.close,
                   volume |-> Or(newCandle.volume, 0)]), maxCandles(intv))
         ELSE [prevData EXCEPT ![Len(prevData)] =
                  [timestamp |-> lastCandle.timestamp,
                   open |-> lastCandle.open,
                   high |-> Max2(Max2(lastCandle.high, newCandle.close), Or(newCandle.high, 0)),
                   low |-> Min2(Min2(lastCandle.low, newCandle.close),
                                Or(newCandle.low, lastCandle.low)),
                   close |-> newCandle.close,
                   volume |-> Max2(lastCandle.volume, Or(newCandle.volume, 0))]]

(* ------------------------------ steps ---------------------------------- *)
\* The fields of the manager after a step that leaves it in s.
Assign(s) ==
  /\ activeStreams' = s.activeStreams
  /\ messageHandlers' = s.messageHandlers
  /\ tradeHandlers' = s.tradeHandlers
  /\ orderBookHandlers' = s.orderBookHandlers
  /\ wsState' = s.wsState
  /\ wsStreams' = s.wsStreams
  /\ wsOrigin' = s.wsOrigin
  /\ wsSettled' = s.wsSettled
  /\ wsTimeout' = s.wsTimeout
  /\ reconnectAttempts' = s.reconnectAttempts
  /\ isReconnecting' = s.isReconnecting
  /\ connectionInProgress' = s.connectionInProgress
  /\ reconnectTimeout' = s.reconnectTimeout
  /\ heartbeatInterval' = s.heartbeatInterval
  /\ timers' = s.timers
  /\ notified' = s.notified
  /\ created' = s.created
  /\ started' = s.started
  /\ resolved' = s.resolved
  /\ liveDropped' = s.liveDropped

\* A step: its name and arguments.  For subscribe, size is the number of
\* active streams before the call and fresh tells that none of them was of
\* the symbol; unsubscribe right after the subscribe of the same pair
\* carries both on, any other step has size -1.  For a frame: text, e, k.
Op(name, symbol, intv, size, fresh) ==
  [name |-> name, symbol |-> symbol, interval |-> intv, size |-> size, fresh |-> fresh,
   text |-> "", e |-> "", k |-> FALSE]

MessageOp(frame) ==
  [name |-> "message", symbol |-> frame.s, interval |-> frame.i, size |-> -1,
   fresh |-> FALSE, text |-> frame.text, e |-> frame.e, k |-> frame.k]

\* History of a call of the public interface; closes: the call only closes.
CallerStep(s, op, closes) ==
  /\ lastOp' = op
  /\ terminal' = IF closes THEN (terminal \/ s.gaveUp) ELSE FALSE
  /\ normalClosed' = closes
  /\ delivered' = {}
  /\ threw' = FALSE
  /\ watch' = watch
  /\ UNCHANGED nonMgrVars

\* History of a step of the event loop (a socket event or a timer).
EventStep(s, name) ==
  /\ lastOp' = Op(name, "", "", -1, FALSE)
  /\ terminal' = (terminal \/ s.gaveUp)
  /\ normalClosed' = normalClosed
  /\ delivered' = {}
  /\ threw' = FALSE
  /\ UNCHANGED <<watch, cancelled, nonMgrVars>>

Subscribe(symbol, intv, handler) ==
  LET s == subscribe(Cur, symbol, intv, handler)
  IN /\ Assign(s)
     /\ CallerStep(s, Op("subscribe", symbol, intv, Cardinality(activeStreams),
                         \A st \in activeStreams : streamSymbol(st) # toUpperCase(symbol)),
                   FALSE)
     /\ cancelled' = cancelled \ {<<generateStreamName(symbol, intv), handler>>,
                                   <<tradeStreamNameOf(symbol), handler>>}

Unsubscribe(symbol, intv) ==
  LET s == unsubscribe(Cur, symbol, intv)
      gone == {generateStreamName(symbol, intv), tradeStreamNameOf(symbol)}
                 \cap DOMAIN messageHandlers
      follows == lastOp.name = "subscribe" /\ lastOp.symbol = symbol
                   /\ lastOp.interval = intv
  IN /\ Assign(s)
     /\ CallerStep(s, Op("unsubscribe", symbol, intv,
                         IF follows THEN lastOp.size ELSE -1, follows /\ lastOp.fresh),
                   s.activeStreams = {})
     /\ cancelled' = cancelled \cup ({<<k, messageHandlers[k]>> : k \in gone} \cap watch)

SubscribeToOrderBook(symbol, handler) ==
  LET s == subscribeToOrderBook(Cur, symbol, handler)
  IN /\ Assign(s)
     /\ CallerStep(s, Op("subscribeToOrderBook", symbol, "", -1, FALSE), FALSE)
     /\ cancelled' = cancelled

SubscribeToTrades(symbol, handler) ==
  LET s == subscribeToTrades(Cur, symbol, handler)
  IN /\ Assign(s)
     /\ CallerStep(s, Op("subscribeToTrades", symbol, "", -1, FALSE), FALSE)
     /\ cancelled' = cancelled

SubscribeBulk(symbols, handler) ==
  LET s == subscribeBulk(Cur, symbols, handler)
  IN /\ Assign(s)
     /\ CallerStep(s, Op("subscribeBulk", "", "", -1, FALSE), FALSE)
     /\ cancelled' = cancelled \ {<<stream, handler>> : stream \in bulkStreams(symbols)}

UnsubscribeBulk(symbols) ==
  LET s == unsubscribeBulk(Cur, symbols)
  IN /\ Assign(s)
     /\ CallerStep(s, Op("unsubscribeBulk", "", "", -1, FALSE), s.activeStreams = {})
     /\ cancelled' = cancelled

Connect ==
  LET s == connect(Cur, "caller")
  IN /\ Assign(s)
     /\ CallerStep(s, Op("connect", "", "", -1, FALSE), FALSE)
     /\ cancelled' = cancelled

Disconnect ==
  LET s == disconnect(Cur, TRUE)
  IN /\ Assign(s)
     /\ CallerStep(s, Op("disconnect", "", "", -1, FALSE), TRUE)
     /\ cancelled' = cancelled

\* The connection is established: the open event.
SocketOpen ==
  /\ wsState = "CONNECTING"
  /\ LET s == onopen(Cur) IN Assign(s) /\ EventStep(s, "open")

\* The connection fails, or its closing after connectionTimeout completes:
\* one task fires error and then close with code 1006.
SocketFail ==
  /\ wsState \in {"CONNECTING", "CLOSING"}
  /\ LET s == onclose(onerror(Cur), 1006) IN Assign(s) /\ EventStep(s, "fail")

\* The established connection is closed by the peer, cleanly or not.
SocketClose(code) ==
  /\ wsState = "OPEN"
  /\ LET s == onclose(Cur, code) IN Assign(s) /\ EventStep(s, "close")

\* The established connection breaks: error, then close with code 1006.
SocketAbort ==
  /\ wsState = "OPEN"
  /\ LET s == onclose(onerror(Cur), 1006) IN Assign(s) /\ EventStep(s, "abort")

\* The connectionTimeout timer of the current socket fires.
ConnectionTimeout ==
  /\ wsTimeout
  /\ LET s0 == [Cur EXCEPT !.wsTimeout = FALSE]
         s == IF s0.wsState = "CONNECTING"
                THEN [connectionTimeout(s0, s0.wsOrigin)
                        EXCEPT !.wsSettled = TRUE, !.wsOrigin = "none"]
                ELSE connectionTimeout(s0, s0.wsOrigin)
     IN Assign(s) /\ EventStep(s, "timeout")

\* The connectionTimeout timer of a socket that disconnect() dropped fires.
StaleConnectionTimeout(origin) ==
  /\ timers[staleKind(origin)] > 0
  /\ LET s == connectionTimeout(clearOne(Cur, staleKind(origin)), origin)
     IN Assign(s) /\ EventStep(s, "staleTimeout")

\* subscribe(): setTimeout(() => this.connect().catch(...), 3000)
RetryTimer ==
  /\ timers["retry"] > 0
  /\ LET s == connect(clearOne(Cur, "retry"), "retry")
     IN Assign(s) /\ EventStep(s, "retry")

\* attemptReconnection(): setTimeout(() => this.attemptReconnection(), delay * 2)
CatchTimer ==
  /\ timers["catch"] > 0
  /\ LET s == attemptReconnection(clearOne(Cur, "catch"))
     IN Assign(s) /\ EventStep(s, "catch")

\* attemptReconnection(): this.reconnectTimeout fires
ReconnectTimer ==
  /\ reconnectTimeout
  /\ LET s == connect([Cur EXCEPT !.reconnectTimeout = FALSE, !.isReconnecting = FALSE],
                      "reconnect")
     IN Assign(s) /\ EventStep(s, "reconnect")

\* setupHeartbeat(): the interval callback
Heartbeat ==
  /\ heartbeatInterval
  /\ LET s == IF isConnected(Cur) THEN Cur
              ELSE IF Cur.activeStreams # {} /\ ~Cur.connectionInProgress
                     THEN attemptReconnection(Cur)
                     ELSE Cur
     IN Assign(s) /\ EventStep(s, "heartbeat")

\* ws.onmessage
HandleMessage(frame) ==
  /\ wsState = "OPEN"
  /\ LET r == handleMessage(Cur, frame)
     IN /\ Assign(Cur)
        /\ lastOp' = MessageOp(frame)
        /\ delivered' = r.invoked
        /\ threw' = r.raised
  /\ UNCHANGED <<terminal, normalClosed, watch, cancelled, nonMgrVars>>

(* ------------------------- reconnection backoff ------------------------ *)
\* calculateBackoffDelay(attempt, baseDelay, maxDelay) without the cap
calculateBackoffDelay_nocap(attempt, baseDelay, maxDelay, random) ==
  baseDelay * (2 ^ attempt) + random

\* calculateBackoffDelay(attempt, baseDelay, maxDelay); random stands for
\* the value Math.random() * 1000 takes.
calculateBackoffDelay(attempt, baseDelay, maxDelay, random) ==
  Min2(baseDelay * (2 ^ attempt), maxDelay) + random

\* Math.random() * 1000 lies in [0, 1000).
Randoms == {0, 1, 250, 500, 750, JitterMax - 2, JitterMax - 1}

\* (baseDelay, maxDelay): WS_CONFIG, the defaults, and the cap of the test
BackoffParams == {<<5000, 30000>>, <<1000, 30000>>, <<1000, 5000>>}

\* The delay of the next attempt, as attemptReconnection computes it.
NextDelay(random) ==
  /\ backoffArgs.attempt < MaxAttempt
  /\ backoffArgs' = [backoffArgs EXCEPT !.attempt = @ + 1]
  /\ backoffRandom' = random
  /\ backoffDelay' = calculateBackoffDelay(backoffArgs.attempt + 1, backoffArgs.baseDelay,
                                           backoffArgs.maxDelay, random)
  /\ UNCHANGED nonBackoffVars

InitBackoffIdle ==
  /\ backoffArgs = [attempt |-> -1, baseDelay |-> 5000, maxDelay |-> 30000]
  /\ backoffRandom = 0
  /\ backoffDelay = -1

(* ------------------------------ REST client ---------------------------- *)
\* What a request ends with: a response (status 200), an HTTP error
\* (error.response.status, error.response.data.msg) or an error without a
\* response (error.code); error.message may be missing.
Outcome(code, status, msg, message) ==
  [code |-> code, status |-> status, msg |-> msg, message |-> message]

NoOutcome == Outcome("", 0, "", "")

Successes == {Outcome("", 200, "", "")}

NetworkErrors ==
  {Outcome(code, 0, "", message) :
      code \in {"ECONNABORTED", "ENOTFOUND", "ECONNREFUSED", "ERR_NETWORK"},
      message \in {"", "Network Error"}}

HttpErrors ==
  {Outcome("ERR_BAD_RESPONSE", status, msg, message) :
      status \in {400, 404, 418, 429, 500, 502, 503, 504},
      msg \in {"", "Invalid symbol"},
      message \in {"", "Request failed"}}

Failures == NetworkErrors \cup HttpErrors

\* a || b on strings
OrStr(a, b) == IF a = "" THEN b ELSE a

\* the interceptor's shouldRetry with count < config.retry alone
shouldRetry_anyerror(count, error) == count < retry

shouldRetry(count, error) ==
  /\ count < retry
  /\ \/ error.code = "ECONNABORTED"
     \/ error.code = "ENOTFOUND"
     \/ error.code = "ECONNREFUSED"
     \/ error.status \in {429, 502, 503, 504}

\* Math.min(1000 * Math.pow(2, config.retryCount), 10000)
retryDelay(count) ==
  IF 1000 * (2 ^ count) <= 10000 THEN 1000 * (2 ^ count) ELSE 10000

apiError(error) ==
  [code |-> error.status,
   message |-> OrStr(OrStr(error.msg, error.message), "Unknown error"),
   timestamp |-> "now"]

NoRejection == [code |-> 0, message |-> "", timestamp |-> ""]

NoLimit == -1

\* getKlines: params.limit without the clamp
klinesLimit_unclamped(limit) == limit

\* getKlines: limit: Math.min(limit, 1000)
klinesLimit(limit) == Min2(limit, MAX_KLINES_LIMIT)

\* limits callers ask for: DEFAULT_CANDLE_LIMIT, the maximum and its
\* neighbours, and the 1500 of the test
Limits == {1, 200, 999, 1000, 1001, 1500}

\* get24hrStats / getCurrentPrice: this.api.get(...) without a limit
Request ==
  /\ restState \in {"idle", "resolved", "rejected"}
  /\ restState' = "inflight"
  /\ retryCount' = 0
  /\ issued' = 1
  /\ lastResponse' = NoOutcome
  /\ restDelay' = 0
  /\ rejection' = NoRejection
  /\ requestedLimit' = NoLimit
  /\ sentLimit' = NoLimit
  /\ UNCHANGED nonRestVars

\* getKlines(symbol, interval, limit): this.api.get('/api/v3/klines', ...)
GetKlines(limit) ==
  /\ restState \in {"idle", "resolved", "rejected"}
  /\ restState' = "inflight"
  /\ retryCount' = 0
  /\ issued' = 1
  /\ lastResponse' = NoOutcome
  /\ restDelay' = 0
  /\ rejection' = NoRejection
  /\ requestedLimit' = limit
  /\ sentLimit' = klinesLimit(limit)
  /\ UNCHANGED nonRestVars

\* the response interceptor's success handler
ResponseOk(response) ==
  /\ restState = "inflight"
  /\ restState' = "resolved"
  /\ lastResponse' = response
  /\ UNCHANGED <<retryCount, issued, restDelay, rejection, requestedLimit, sentLimit,
                 nonRestVars>>

\* the response interceptor's error handler, up to the await or the reject
ResponseError(error) ==
  /\ restState = "inflight"
  /\ lastResponse' = error
  /\ IF shouldRetry(retryCount, error)
       THEN /\ retryCount' = retryCount + 1
            /\ restDelay' = retryDelay(retryCount + 1)
            /\ restState' = "waiting"
            /\ UNCHANGED rejection
       ELSE /\ restState' = "rejected"
            /\ rejection' = apiError(error)
            /\ UNCHANGED <<retryCount, restDelay>>
  /\ UNCHANGED <<issued, requestedLimit, sentLimit, nonRestVars>>

\* the delay has passed: return this.api(config), with the params of config
RetryRequest ==
  /\ restState = "waiting"
  /\ restState' = "inflight"
  /\ issued' = issued + 1
  /\ restDelay' = 0
  /\ UNCHANGED <<retryCount, lastResponse, rejection, requestedLimit, sentLimit,
                 nonRestVars>>

InitRest ==
  /\ restState = "idle"
  /\ retryCount = 0
  /\ issued = 0
  /\ lastResponse = NoOutcome
  /\ restDelay = 0
  /\ rejection = NoRejection
  /\ requestedLimit = NoLimit
  /\ sentLimit = NoLimit

(* --------------------------- specification ----------------------------- *)
InitMgr ==
  /\ activeStreams = {}
  /\ messageHandlers = EmptyMap
  /\ tradeHandlers = EmptyMap
  /\ orderBookHandlers = EmptyMap
  /\ wsState = Null
  /\ wsStreams = {}
  /\ wsOrigin = "none"
  /\ wsSettled = FALSE
  /\ wsTimeout = FALSE
  /\ reconnectAttempts = 0
  /\ isReconnecting = FALSE
  /\ connectionInProgress = FALSE
  /\ reconnectTimeout = FALSE
  /\ heartbeatInterval = FALSE
  /\ timers = [k \in TimerKinds |-> 0]
  /\ notified = <<>>
  /\ created = FALSE
  /\ started = FALSE
  /\ resolved = FALSE
  /\ liveDropped = 0
  /\ delivered = {}
  /\ threw = FALSE
  /\ lastOp = Op("init", "", "", -1, FALSE)
  /\ cancelled = {}
  /\ terminal = FALSE
  /\ normalClosed = FALSE

InitAggIdle ==
  /\ candlestickData = <<>>
  /\ interval = "1m"
  /\ lastTick = [timestamp |-> 0, open |-> 0, high |-> 0, low |-> 0, close |-> 0,
                 volume |-> 0, source |-> "none"]

\* useState(null), useState(false), useState(0); no timer, no fallback socket
NoSubscription == <<>>

InitFallback ==
  /\ currentSubscription = NoSubscription
  /\ isUsingFallback = FALSE
  /\ fallbackAttempts = 0
  /\ errorTimeouts = {}
  /\ clearChecks = {}
  /\ fallbackConnections = {}
  /\ fallbackDead = {}
  /\ fallbackClosing = {}
  /\ fallbackReconnects = {}
  /\ closedOnPurpose = {}

\* EnhancedDashboard before its first loadChartData
InitDash ==
  /\ selection = NoSubscription
  /\ pendingHistory = {}
  /\ seriesOf = NoSubscription
  /\ isMounted = TRUE

\* a new EnhancedWebSocketManager
InitEnhanced ==
  /\ productSubscriptions = EmptyMap
  /\ enhancedStreams = {}
  /\ enhancedHandlers = EmptyMap
  /\ enhancedWs = Null
  /\ enhancedWsStreams = {}

Init ==
  /\ InitMgr /\ watch = {} /\ InitAggIdle /\ InitRest /\ InitBackoffIdle
  /\ InitFallback /\ InitDash /\ InitEnhanced

Events ==
  \/ SocketOpen
  \/ SocketFail
  \/ \E code \in CloseCodes : SocketClose(code)
  \/ SocketAbort
  \/ ConnectionTimeout
  \/ \E origin \in {"subscribe", "reconnect", "other"} : StaleConnectionTimeout(origin)
  \/ RetryTimer
  \/ CatchTimer
  \/ ReconnectTimer
  \/ Heartbeat

\* Calls that add subscriptions wait for the connection attempt in flight.
Quiet == wsState # "CONNECTING"

\* The subscription registry: two charts, each with its own handler, the
\* live-trades list and the multi-product grid.
ChartHandler(symbol) == IF symbol = "BTCUSDT" THEN "h1" ELSE "h2"

Next ==
  \/ /\ Quiet
     /\ \/ \E symbol \in Symbols, intv \in Intervals :
              Subscribe(symbol, intv, ChartHandler(symbol))
        \/ \E handler \in TradeHandlers : SubscribeToTrades("BTCUSDT", handler)
        \/ \E handler \in OrderBookHandlers : SubscribeToOrderBook("ETHUSDT", handler)
        \/ SubscribeBulk({"ETHUSDT"}, "h1")
        \/ UnsubscribeBulk({"ETHUSDT"})
  \/ \E symbol \in Symbols, intv \in Intervals : Unsubscribe(symbol, intv)
  \/ SocketOpen

Spec == Init /\ [][Next]_vars

\* Dispatch of inbound frames to the handlers of one chart; each behaviour
\* observes one registration.
WatchedStreams ==
  {generateStreamName("BTCUSDT", intv) : intv \in Intervals} \cup {tradeStreamNameOf("BTCUSDT")}

InitMsg ==
  /\ InitMgr
  /\ watch \in {{<<stream, handler>>} : stream \in WatchedStreams, handler \in Handlers}
  /\ InitAggIdle
  /\ InitRest
  /\ InitFallback
  /\ InitDash
  /\ InitEnhanced
  /\ InitBackoffIdle

NextMsg ==
  \/ /\ Quiet
     /\ \/ \E intv \in Intervals, handler \in Handlers : Subscribe("BTCUSDT", intv, handler)
        \/ \E intv \in Intervals : Unsubscribe("BTCUSDT", intv)
        \/ \E handler \in TradeHandlers : SubscribeToTrades("BTCUSDT", handler)
        \/ \E handler \in Handlers : SubscribeBulk({"BTCUSDT"}, handler)
        \/ UnsubscribeBulk({"BTCUSDT"})
  \/ SocketOpen
  \/ \E frame \in Frames : HandleMessage(frame)

SpecMsg == InitMsg /\ [][NextMsg]_vars

\* One chart: the life cycle of the connection.
NextConn ==
  \/ Subscribe("BTCUSDT", "1m", "h1")
  \/ Unsubscribe("BTCUSDT", "1m")
  \/ Connect
  \/ Disconnect
  \/ Events

SpecConn == Init /\ [][NextConn]_vars

\* The scheduling of the event loop: a connection attempt ends (the socket
\* opens or fails) and a timer that stays due is run. An open connection may
\* stay open, and callers are under no obligation.
EventLoopFairness ==
  /\ WF_vars(SocketOpen \/ SocketFail)
  /\ WF_vars(ConnectionTimeout)
  /\ \A origin \in {"subscribe", "reconnect", "other"} :
        WF_vars(StaleConnectionTimeout(origin))
  /\ WF_vars(RetryTimer)
  /\ WF_vars(CatchTimer)
  /\ WF_vars(ReconnectTimer)
  /\ WF_vars(Heartbeat)

SpecConnLive == Init /\ [][NextConn]_vars /\ EventLoopFairness

\* One chart and the bulk tickers: subscriptions come and go while the
\* connection fails, times out and is retried.
NextSockets ==
  \/ Subscribe("BTCUSDT", "1m", "h1")
  \/ Unsubscribe("BTCUSDT", "1m")
  \/ SubscribeBulk({"ETHUSDT"}, "h1")
  \/ UnsubscribeBulk({"ETHUSDT"})
  \/ Events

SpecSockets == Init /\ [][NextSockets]_vars

(* ------------------- the chart's subscription, with fallback ------------ *)
\* History of a step of ChartDataProvider that leaves the manager in state s.
ProviderStep(s, name, symbol, intv) ==
  /\ Assign(s)
  /\ lastOp' = Op(name, symbol, intv, -1, FALSE)
  /\ delivered' = {}
  /\ threw' = FALSE
  /\ UNCHANGED <<watch, cancelled, aggVars, restVars, backoffVars, enhancedVars>>

\* The sockets and timers of FallbackWebSocketManager. Sockets of one stream
\* that are closing at the same time are kept once.
Fb ==
  [connections |-> fallbackConnections, dead |-> fallbackDead,
   closing |-> fallbackClosing, reconnects |-> fallbackReconnects]

AssignFb(f) ==
  /\ fallbackConnections' = f.connections
  /\ fallbackDead' = f.dead
  /\ fallbackClosing' = f.closing
  /\ fallbackReconnects' = f.reconnects

\* FallbackWebSocketManager.disconnect(streamName): ws.close(1000, ...) leaves
\* the socket's onclose handler in place.
fallbackDisconnect(f, streamName) ==
  [f EXCEPT !.closing = IF streamName \in f.connections \ f.dead
                          THEN @ \cup {streamName} ELSE @,
            !.connections = @ \ {streamName},
            !.dead = @ \ {streamName},
            !.reconnects = @ \ {streamName}]

\* FallbackWebSocketManager.subscribe(symbol, interval, handler): the stream's
\* connection is closed if there is one and a socket of its own is created.
fallbackSubscribe(f, symbol, intv) ==
  [fallbackDisconnect(f, generateStreamName(symbol, intv))
     EXCEPT !.connections = @ \cup {generateStreamName(symbol, intv)}]

\* FallbackWebSocketManager.disconnectAll()
fallbackDisconnectAll(f) ==
  [f EXCEPT !.closing = @ \cup (f.connections \ f.dead),
            !.connections = {}, !.dead = {}, !.reconnects = {}]

\* FallbackWebSocketManager.scheduleReconnect(symbol, interval, handler)
scheduleReconnect(f, streamName) == [f EXCEPT !.reconnects = @ \cup {streamName}]

\* subscribeToUpdates(symbol, interval). The errorTimeout and the 2 s check of
\* one subscription are kept once, however often it was subscribed.
subscribeToUpdates(symbol, intv) ==
  LET previous == currentSubscription
         main == ~isUsingFallback /\ fallbackAttempts < 3
         s1 == IF previous # NoSubscription /\ ~isUsingFallback
                 THEN unsubscribe(Cur, previous[1], previous[2])
                 ELSE Cur
         s2 == IF main THEN subscribe(s1, symbol, intv, "h1") ELSE s1
         disconnects == previous # NoSubscription /\ isUsingFallback
         f1 == IF disconnects
                 THEN fallbackDisconnect(Fb, generateStreamName(previous[1], previous[2]))
                 ELSE Fb
         p1 == IF disconnects
                 THEN closedOnPurpose \cup {generateStreamName(previous[1], previous[2])}
                 ELSE closedOnPurpose
     IN /\ ProviderStep(s2, "subscribeToUpdates", symbol, intv)
        /\ terminal' = FALSE
        /\ normalClosed' = FALSE
        /\ errorTimeouts' = IF main THEN errorTimeouts \cup {<<symbol, intv>>}
                                    ELSE errorTimeouts
        /\ clearChecks' = IF main THEN clearChecks \cup {<<symbol, intv>>}
                                  ELSE clearChecks
        /\ isUsingFallback' = (isUsingFallback \/ ~main)
        /\ AssignFb(IF main THEN f1 ELSE fallbackSubscribe(f1, symbol, intv))
        /\ closedOnPurpose' = IF main THEN p1 ELSE p1 \ {generateStreamName(symbol, intv)}
        /\ currentSubscription' = <<symbol, intv>>
        /\ UNCHANGED fallbackAttempts

\* subscribeToUpdates(symbol, interval) called for another subscription than
\* the current one; for the current one it returns at once.
SubscribeToUpdates(symbol, intv) ==
  /\ currentSubscription # <<symbol, intv>>
  /\ subscribeToUpdates(symbol, intv)
  /\ UNCHANGED dashVars

\* The 2 s timer of subscribeToUpdates: clearTimeout(errorTimeout) if the
\* manager is connected.
ClearCheck(sub) ==
  /\ sub \in clearChecks
  /\ clearChecks' = clearChecks \ {sub}
  /\ errorTimeouts' = IF isConnected(Cur) THEN errorTimeouts \ {sub} ELSE errorTimeouts
  /\ ProviderStep(Cur, "clearCheck", sub[1], sub[2])
  /\ UNCHANGED <<terminal, normalClosed, currentSubscription, isUsingFallback,
                 fallbackAttempts, fallbackConnections, fallbackDead, fallbackClosing,
                 fallbackReconnects, closedOnPurpose, dashVars>>

\* The 15 s errorTimeout of subscribeToUpdates; it is due after the 2 s timer
\* armed by the same call.
ErrorTimeout(sub) ==
  /\ sub \in errorTimeouts
  /\ sub \notin clearChecks
  /\ errorTimeouts' = errorTimeouts \ {sub}
  /\ IF ~isConnected(Cur)
       THEN /\ isUsingFallback' = TRUE
            /\ fallbackAttempts' = fallbackAttempts + 1
            /\ AssignFb(fallbackSubscribe(Fb, sub[1], sub[2]))
            /\ closedOnPurpose' = closedOnPurpose \ {generateStreamName(sub[1], sub[2])}
       ELSE UNCHANGED <<isUsingFallback, fallbackAttempts, fallbackConnections,
                        fallbackDead, fallbackClosing, fallbackReconnects,
                        closedOnPurpose>>
  /\ ProviderStep(Cur, "errorTimeout", sub[1], sub[2])
  /\ UNCHANGED <<terminal, normalClosed, currentSubscription, clearChecks, dashVars>>

\* The chart shows one symbol at one interval.
ChartSubscriptions == {<<"BTCUSDT", "1m">>}

NextFallback ==
  \/ \E sub \in ChartSubscriptions : SubscribeToUpdates(sub[1], sub[2])
  \/ \E sub \in ChartSubscriptions : ClearCheck(sub)
  \/ \E sub \in ChartSubscriptions : ErrorTimeout(sub)
  \/ Events

SpecFallback == Init /\ [][NextFallback]_vars

(* ----------------------- FallbackWebSocketManager ----------------------- *)
\* History of a step of the fallback manager alone.
FallbackStep(f) ==
  /\ AssignFb(f)
  /\ UNCHANGED <<currentSubscription, isUsingFallback, fallbackAttempts, errorTimeouts,
                 clearChecks, mgrVars, aggVars, restVars, backoffVars, dashVars,
                 enhancedVars>>

\* a caller's subscribe(symbol, interval, handler)
FallbackSubscribe(symbol, intv) ==
  /\ FallbackStep(fallbackSubscribe(Fb, symbol, intv))
  /\ closedOnPurpose' = closedOnPurpose \ {generateStreamName(symbol, intv)}

\* a caller's disconnect(streamName)
FallbackDisconnect(symbol, intv) ==
  /\ FallbackStep(fallbackDisconnect(Fb, generateStreamName(symbol, intv)))
  /\ closedOnPurpose' = closedOnPurpose \cup {generateStreamName(symbol, intv)}

\* a caller's disconnectAll()
FallbackDisconnectAll ==
  /\ FallbackStep(fallbackDisconnectAll(Fb))
  /\ closedOnPurpose' = closedOnPurpose \cup fallbackConnections

\* ws.onclose of a socket that disconnect or disconnectAll closed
FallbackClosed(streamName) ==
  /\ streamName \in fallbackClosing
  /\ FallbackStep(scheduleReconnect([Fb EXCEPT !.closing = @ \ {streamName}], streamName))
  /\ UNCHANGED closedOnPurpose

\* ws.onclose of a socket the peer closed
FallbackDropped(streamName) ==
  /\ streamName \in fallbackConnections \ fallbackDead
  /\ FallbackStep(scheduleReconnect([Fb EXCEPT !.dead = @ \cup {streamName}], streamName))
  /\ UNCHANGED closedOnPurpose

\* the timer of scheduleReconnect: this.subscribe(symbol, interval, handler)
FallbackReconnectTimer(symbol, intv) ==
  /\ generateStreamName(symbol, intv) \in fallbackReconnects
  /\ FallbackStep(fallbackSubscribe(
        [Fb EXCEPT !.reconnects = @ \ {generateStreamName(symbol, intv)}], symbol, intv))
  /\ UNCHANGED closedOnPurpose

FallbackSubscriptions == {<<"BTCUSDT", "1m">>, <<"ETHUSDT", "1m">>, <<"BTCUSDT", "5m">>}

NextFallbackMgr ==
  \/ \E sub \in FallbackSubscriptions : FallbackSubscribe(sub[1], sub[2])
  \/ \E sub \in FallbackSubscriptions : FallbackDisconnect(sub[1], sub[2])
  \/ FallbackDisconnectAll
  \/ \E sub \in FallbackSubscriptions : FallbackClosed(generateStreamName(sub[1], sub[2]))
  \/ \E sub \in FallbackSubscriptions : FallbackDropped(generateStreamName(sub[1], sub[2]))
  \/ \E sub \in FallbackSubscriptions : FallbackReconnectTimer(sub[1], sub[2])

SpecFallbackMgr == Init /\ [][NextFallbackMgr]_vars

(* ----------------------- the chart's data path -------------------------- *)
Prices == {0, 1, 2}
Quantities == {0, 1}
Times == {500 * n : n \in 0 .. MaxTick}

\* k of a kline event of the chart's interval: the bar opens on a boundary
\* of the interval and low <= open, close <= high.
Klines(intv) ==
  {[t |-> t, o |-> b[1], h |-> b[2], l |-> b[3], c |-> b[4], v |-> v] :
      t \in {u \in Times : u % getIntervalMs(intv) = 0},
      b \in {x \in Prices \X Prices \X Prices \X Prices :
                x[3] <= x[1] /\ x[3] <= x[4] /\ x[1] <= x[2] /\ x[4] <= x[2]},
      v \in Quantities}

Trades == {[T |-> t, p |-> p, q |-> q] : t \in Times, p \in Prices, q \in Quantities}

WellFormed(c) ==
  /\ c.low <= c.open /\ c.low <= c.close
  /\ c.open <= c.high /\ c.close <= c.high

Tick(candle, source) ==
  [timestamp |-> candle.timestamp, open |-> candle.open, high |-> candle.high,
   low |-> candle.low, close |-> candle.close, volume |-> candle.volume,
   source |-> source]

\* A frame of the chart's subscription reaches dataHandler, which calls
\* updateData(newCandle, interval).
Feed(candle, source) ==
  /\ \E updatedData \in {updateData(candlestickData, candle, interval)} :
        /\ Len(updatedData) <= MaxLen
        /\ candlestickData' = updatedData
  /\ lastTick' = Tick(candle, source)
  /\ UNCHANGED <<interval, nonAggVars>>

FeedKline(k) == Feed(klineCandle(k), "kline")
FeedTrade(trade) == Feed(tradeCandle(trade), "trade")

FeedFallback(candle, source) ==
  /\ \E updatedData \in {updateDataFallback(candlestickData, candle)} :
        /\ Len(updatedData) <= MaxLen
        /\ candlestickData' = updatedData
  /\ lastTick' = Tick(candle, source)
  /\ UNCHANGED <<interval, nonAggVars>>

FeedFallbackKline(k) == FeedFallback(klineCandle(k), "kline")
FeedFallbackTrade(trade) == FeedFallback(tradeCandle(trade), "trade")

InitAgg ==
  /\ InitMgr
  /\ InitRest
  /\ InitFallback
  /\ InitDash
  /\ InitEnhanced
  /\ InitBackoffIdle
  /\ watch = {}
  /\ candlestickData = <<>>
  /\ interval = "1s"
  /\ lastTick = [timestamp |-> 0, open |-> 0, high |-> 0, low |-> 0, close |-> 0,
                 volume |-> 0, source |-> "none"]

NextAgg ==
  \/ \E k \in Klines(interval) : FeedKline(k)
  \/ \E trade \in Trades : FeedTrade(trade)

SpecAgg == InitAgg /\ [][NextAgg]_vars

NextAggFallback ==
  \/ \E k \in Klines(interval) : FeedFallbackKline(k)
  \/ \E trade \in Trades : FeedFallbackTrade(trade)

SpecAggFallback == InitAgg /\ [][NextAggFallback]_vars

(* ------------------------ a long-running chart ------------------------- *)
RetentionIntervals == {"1s", "1m", "15m"}

\* Numbers of candles a history request delivers: the default limit and
\* the five hundred of the retention test.
HistoryLengths == {200, 500}

\* n consecutive closed candles starting at time 0.
History(n, intv) ==
  [b \in 1 .. n |->
     [timestamp |-> (b - 1) * getIntervalMs(intv), open |-> 1, high |-> 1, low |-> 1,
      close |-> 1, volume |-> 1]]

\* setData(data)
SetData(n) ==
  /\ candlestickData = <<>>
  /\ candlestickData' = History(n, interval)
  /\ UNCHANGED <<interval, lastTick, nonAggVars>>

\* The first trade of the bucket after the current candle's.
NextBarTrade ==
  [T |-> IF Len(candlestickData) = 0 THEN 0
         ELSE candlestickData[Len(candlestickData)].timestamp + getIntervalMs(interval),
   p |-> 1, q |-> 1]

FeedBar ==
  /\ NextBarTrade.T < (MAX_DATA_POINTS + MaxBars) * getIntervalMs(interval)
  /\ candlestickData' = updateData(candlestickData, tradeCandle(NextBarTrade), interval)
  /\ lastTick' = Tick(tradeCandle(NextBarTrade), "trade")
  /\ UNCHANGED <<interval, nonAggVars>>

InitRetention ==
  /\ InitMgr
  /\ InitRest
  /\ InitFallback
  /\ InitDash
  /\ InitEnhanced
  /\ InitBackoffIdle
  /\ watch = {}
  /\ candlestickData = <<>>
  /\ interval \in RetentionIntervals
  /\ lastTick = [timestamp |-> 0, open |-> 0, high |-> 0, low |-> 0, close |-> 0,
                 volume |-> 0, source |-> "none"]

NextRetention ==
  \/ \E n \in HistoryLengths : SetData(n)
  \/ FeedBar

SpecRetention == InitRetention /\ [][NextRetention]_vars

(* ----------------------- EnhancedWebSocketManager ---------------------- *)
\* The registry and the socket of the enhanced manager. Its socket opens or
\* keeps connecting; its failures and timers follow WebSocketManager's and
\* leave the registry alone.
Enh ==
  [productSubscriptions |-> productSubscriptions, activeStreams |-> enhancedStreams,
   messageHandlers |-> enhancedHandlers, ws |-> enhancedWs,
   wsStreams |-> enhancedWsStreams]

AssignEnh(e) ==
  /\ productSubscriptions' = e.productSubscriptions
  /\ enhancedStreams' = e.activeStreams
  /\ enhancedHandlers' = e.messageHandlers
  /\ enhancedWs' = e.ws
  /\ enhancedWsStreams' = e.wsStreams

\* `${symbol.toUpperCase()}_${interval}`
subscriptionKey(symbol, intv) == <<toUpperCase(symbol), intv>>

cleanupSymbolStreams(e, symbol) ==
  LET streamsToRemove == {st \in e.activeStreams : streamSymbol(st) = toUpperCase(symbol)}
  IN [e EXCEPT !.messageHandlers = MapDelete(@, streamsToRemove),
               !.activeStreams = @ \ streamsToRemove]

\* EnhancedWebSocketManager.disconnect
enhancedDisconnect(e) == [e EXCEPT !.ws = Null, !.wsStreams = {}]

\* connectionInProgress is false whenever a caller's call starts: disconnect
\* clears it before the socket is created.
connectMultiProduct(e) ==
  IF e.activeStreams = {} THEN e
  ELSE [enhancedDisconnect(e) EXCEPT !.ws = "CONNECTING", !.wsStreams = e.activeStreams]

subscribeMultiProduct(e, symbol, intv, handler) ==
  LET e1 == [e EXCEPT !.productSubscriptions =
                         MapSet(@, subscriptionKey(symbol, intv), handler)]
      e2 == cleanupSymbolStreams(e1, symbol)
      e3 == [e2 EXCEPT !.messageHandlers =
                          MapSet(MapSet(@, generateStreamName(symbol, intv), handler),
                                 tradeStreamNameOf(symbol), handler),
                       !.activeStreams = @ \cup {generateStreamName(symbol, intv),
                                                 tradeStreamNameOf(symbol)}]
  IN connectMultiProduct(e3)

unsubscribeProduct(e, symbol, intv) ==
  LET e1 == [e EXCEPT !.productSubscriptions =
                         MapDelete(@, {subscriptionKey(symbol, intv)})]
      e2 == cleanupSymbolStreams(e1, symbol)
  IN IF e2.activeStreams = {} THEN enhancedDisconnect(e2) ELSE connectMultiProduct(e2)

SubscribeMultiProduct(symbol, intv, handler) ==
  /\ AssignEnh(subscribeMultiProduct(Enh, symbol, intv, handler))
  /\ UNCHANGED nonEnhancedVars

UnsubscribeProduct(symbol, intv) ==
  /\ AssignEnh(unsubscribeProduct(Enh, symbol, intv))
  /\ UNCHANGED nonEnhancedVars

\* ws.onopen of the enhanced manager's socket
EnhancedSocketOpen ==
  /\ enhancedWs = "CONNECTING"
  /\ AssignEnh([Enh EXCEPT !.ws = "OPEN"])
  /\ UNCHANGED nonEnhancedVars

NextEnhanced ==
  \/ \E symbol \in Symbols, intv \in Intervals, handler \in Handlers :
        SubscribeMultiProduct(symbol, intv, handler)
  \/ \E symbol \in Symbols, intv \in Intervals : UnsubscribeProduct(symbol, intv)
  \/ EnhancedSocketOpen

SpecEnhanced == Init /\ [][NextEnhanced]_vars

(* ----------------------- the dashboard's chart load --------------------- *)
\* History of a step of EnhancedDashboard that leaves the manager alone.
DashStep(name, sel) ==
  /\ Assign(Cur)
  /\ lastOp' = Op(name, sel[1], sel[2], -1, FALSE)
  /\ delivered' = {}
  /\ threw' = FALSE
  /\ UNCHANGED <<watch, cancelled, terminal, normalClosed, restVars, backoffVars,
                 fallbackVars, enhancedVars>>

\* loadChartData(pair, interval) up to its await: subscribeToUpdates and the
\* call of binanceAPI.getKlines.
LoadChartData(sel) ==
  /\ isMounted
  /\ IF currentSubscription # sel
       THEN subscribeToUpdates(sel[1], sel[2])
       ELSE /\ ProviderStep(Cur, "subscribeToUpdates", sel[1], sel[2])
            /\ UNCHANGED <<terminal, normalClosed, fallbackVars>>
  /\ selection' = sel
  /\ pendingHistory' = pendingHistory \cup {sel}
  /\ UNCHANGED <<seriesOf, isMounted>>

\* loadChartData after its await: getKlines resolved with n candles and
\* setData(klines) replaces the series.
HistoryLoaded(sel, n) ==
  /\ sel \in pendingHistory
  /\ pendingHistory' = pendingHistory \ {sel}
  /\ candlestickData' = History(n, sel[2])
  /\ seriesOf' = sel
  /\ DashStep("setData", sel)
  /\ UNCHANGED <<interval, lastTick, selection, isMounted>>

\* loadChartData after its await: getKlines rejected and the catch block
\* calls setData([]).
HistoryFailed(sel) ==
  /\ sel \in pendingHistory
  /\ pendingHistory' = pendingHistory \ {sel}
  /\ candlestickData' = <<>>
  /\ seriesOf' = sel
  /\ DashStep("setData", sel)
  /\ UNCHANGED <<interval, lastTick, selection, isMounted>>

\* The cleanup of the dashboard's mount effect.
Unmount ==
  /\ isMounted
  /\ isMounted' = FALSE
  /\ DashStep("unmount", <<"", "">>)
  /\ UNCHANGED <<aggVars, selection, pendingHistory, seriesOf>>

Selections == {<<"BTCUSDT", "1m">>, <<"ETHUSDT", "1m">>, <<"BTCUSDT", "5m">>}
LoadedLengths == {1, 2}

NextDash ==
  \/ \E sel \in Selections : LoadChartData(sel)
  \/ \E sel \in Selections, n \in LoadedLengths : HistoryLoaded(sel, n)
  \/ \E sel \in Selections : HistoryFailed(sel)
  \/ Unmount
  \/ SocketOpen

SpecDash == Init /\ [][NextDash]_vars

(* --------------------------- a REST request --------------------------- *)
NextRest ==
  \/ Request
  \/ \E limit \in Limits : GetKlines(limit)
  \/ \E response \in Successes : ResponseOk(response)
  \/ \E error \in Failures : ResponseError(error)
  \/ RetryRequest

SpecRest == Init /\ [][NextRest]_vars

(* ------------------------ a run of failed attempts --------------------- *)
InitBackoff ==
  /\ InitMgr
  /\ watch = {}
  /\ InitAggIdle
  /\ InitRest
  /\ InitFallback
  /\ InitDash
  /\ InitEnhanced
  /\ \E params \in BackoffParams :
        backoffArgs = [attempt |-> -1, baseDelay |-> params[1], maxDelay |-> params[2]]
  /\ backoffRandom = 0
  /\ backoffDelay = -1

NextBackoff == \E random \in Randoms : NextDelay(random)

SpecBackoff == InitBackoff /\ [][NextBackoff]_vars

(* ------------------------------ claims --------------------------------- *)
OtherStreams(streams, symbol) ==
  {st \in streams : streamSymbol(st) # toUpperCase(symbol)}

OtherHandlers(map, symbol) ==
  {<<k, map[k]>> : k \in OtherStreams(DOMAIN map, symbol)}

\* C1: subscribe(A, i, h) and unsubscribe(A, i) leave every active stream of
\* any other symbol B, and the handler registered for it, as they were.
C1_TopicIsolation ==
  [][lastOp'.name \in {"subscribe", "unsubscribe"} =>
       /\ OtherStreams(activeStreams', lastOp'.symbol)
            = OtherStreams(activeStreams, lastOp'.symbol)
       /\ OtherHandlers(messageHandlers', lastOp'.symbol)
            = OtherHandlers(messageHandlers, lastOp'.symbol)
       /\ tradeHandlers' = tradeHandlers
       /\ orderBookHandlers' = orderBookHandlers]_vars

C1_Witness ==
  /\ lastOp.name \in {"subscribe", "unsubscribe"}
  /\ OtherStreams(activeStreams, lastOp.symbol) # {}
  /\ OtherHandlers(messageHandlers, lastOp.symbol) # {}

\* C2: once no connection attempt is in flight, the open socket carries
\* exactly the active streams.
C2_SocketCarriesActiveStreams ==
  (wsState = "OPEN" /\ activeStreams # {}) => wsStreams = activeStreams

\* C3: unsubscribe(symbol, interval) for a pair that is not subscribed raises
\* no error and leaves the number of active streams unchanged.
C3_UnsubscribeIdempotent ==
  [][(lastOp'.name = "unsubscribe"
        /\ generateStreamName(lastOp'.symbol, lastOp'.interval) \notin activeStreams)
       => (Cardinality(activeStreams') = Cardinality(activeStreams) /\ ~threw')]_vars

\* C4 as claimed: from any registry state, subscribe(S, i, h) immediately
\* followed by unsubscribe(S, i) restores the number of active streams.
C4_RoundTripAnyState ==
  (lastOp.name = "unsubscribe" /\ lastOp.size >= 0)
    => Cardinality(activeStreams) = lastOp.size

\* C4 as amended: from any registry state in which S has no active stream,
\* subscribe(S, i, h) immediately followed by unsubscribe(S, i) restores the
\* number of active streams.
C4_RoundTripFreshSymbol ==
  (lastOp.name = "unsubscribe" /\ lastOp.size >= 0 /\ lastOp.fresh)
    => Cardinality(activeStreams) = lastOp.size

C4_Witness ==
  /\ lastOp.name = "unsubscribe"
  /\ lastOp.size > 0
  /\ lastOp.fresh
  /\ Cardinality(activeStreams) = lastOp.size

\* C5: a handler that unsubscribe(S, i) removed from a stream is not invoked
\* for any later frame of that stream until it is registered again, even
\* while the socket that carries the stream stays open.
C5_NoDispatchAfterUnsubscribe ==
  \A p \in cancelled : <<"messageHandlers", p[1], p[2]>> \notin delivered

C5_Witness ==
  /\ cancelled # {}
  /\ wsState = "OPEN"
  /\ lastOp.name = "message"
  /\ lastOp.e \in {"kline", "trade"}
  /\ \E p \in cancelled :
        /\ p[1] \in wsStreams
        /\ p[1] \in {generateStreamName(lastOp.symbol, lastOp.interval),
                     tradeStreamNameOf(lastOp.symbol)}
        /\ (lastOp.e = "trade") = (p[1][2] = "trade")

\* C6: at most MAX_RECONNECT_ATTEMPTS reconnection attempts are started
\* without a successful open, and once the manager has reported that the
\* maximum is reached it opens no socket until a caller calls in again.
C6_BoundedReconnection ==
  [][/\ reconnectAttempts' <= MAX_RECONNECT_ATTEMPTS
     /\ (terminal /\ terminal') => ~created']_vars

\* C7: after a caller-initiated close (disconnect(), or the unsubscribe of
\* the last stream) the manager is disconnected, starts no reconnection
\* attempt and opens no socket until a caller calls in again.
C7_NoRetryAfterNormalClose ==
  [][/\ (normalClosed' /\ ~normalClosed) => wsState' = Null
     /\ (normalClosed /\ normalClosed') => (~created' /\ ~started')]_vars

\* C8: a frame that is not JSON, has no stream/data envelope or no event
\* discriminator, or whose topic has no handler, raises nothing, invokes no
\* handler and leaves registry and connection as they were; a kline or
\* trade frame with a registered handler is dispatched whatever came before.
Malformed(op) ==
  \/ op.text \in {"nonjson", "null", "bare"}
  \/ op.e = ""
  \/ op.e = "kline" /\ ~op.k

Unmatched(op) ==
  \/ op.e = "kline" /\ generateStreamName(op.symbol, op.interval) \notin DOMAIN messageHandlers
  \/ /\ op.e = "trade"
     /\ tradeStreamNameOf(op.symbol) \notin DOMAIN messageHandlers
     /\ op.symbol \notin DOMAIN tradeHandlers
  \/ op.e = "24hrTicker" /\ tickerStreamNameOf(op.symbol) \notin DOMAIN messageHandlers
  \/ op.e = "24hrMiniTicker" /\ miniTickerStreamNameOf(op.symbol) \notin DOMAIN messageHandlers
  \/ op.e = "depthUpdate" /\ op.symbol \notin DOMAIN orderBookHandlers

C8_MalformedFrameResilience ==
  [][lastOp'.name = "message" =>
       /\ ~threw'
       /\ (Malformed(lastOp') \/ Unmatched(lastOp')) => delivered' = {}
       /\ UNCHANGED <<activeStreams, messageHandlers, tradeHandlers, orderBookHandlers,
                      wsState, wsStreams, reconnectAttempts, isReconnecting,
                      connectionInProgress, reconnectTimeout, heartbeatInterval, timers>>
       /\ (~Malformed(lastOp') /\ lastOp'.e = "kline"
             /\ generateStreamName(lastOp'.symbol, lastOp'.interval) \in DOMAIN messageHandlers)
            => \E d \in delivered' :
                  /\ d[1] = "messageHandlers"
                  /\ d[2] = generateStreamName(lastOp'.symbol, lastOp'.interval)
       /\ (lastOp'.e = "trade" /\ tradeStreamNameOf(lastOp'.symbol) \in DOMAIN messageHandlers)
            => \E d \in delivered' :
                  /\ d[1] = "messageHandlers"
                  /\ d[2] = tradeStreamNameOf(lastOp'.symbol)]_vars

C8_Witness ==
  /\ lastOp.name = "message"
  /\ lastOp.text = "nonjson"
  /\ DOMAIN messageHandlers # {}
  /\ delivered = {}
  /\ ~threw

\* C9: every candle of the series satisfies
\* low <= min(open, close) <= max(open, close) <= high after every step.
C9_OhlcOrdering ==
  \A n \in 1 .. Len(candlestickData) : WellFormed(candlestickData[n])

\* C10: every candle of the series starts on a boundary of the interval,
\* and the candle the last tick went into starts at
\* floor(eventTime / intervalMs) * intervalMs of that tick.
C10_BucketAlignment ==
  /\ \A n \in 1 .. Len(candlestickData) :
        candlestickData[n].timestamp % getIntervalMs(interval) = 0
  /\ lastTick.source # "none" =>
        candlestickData[Len(candlestickData)].timestamp
          = (lastTick.timestamp \div getIntervalMs(interval)) * getIntervalMs(interval)

\* bucketStart = floor(eventTime / intervalMs) * intervalMs
bucketStart(eventTime, intv) == (eventTime \div getIntervalMs(intv)) * getIntervalMs(intv)

CurrentCandle == candlestickData[Len(candlestickData)]

\* The tick of this step falls in a bucket after the current candle's.
NewBarStep ==
  /\ Len(candlestickData) > 0
  /\ bucketStart(lastTick'.timestamp, interval) > CurrentCandle.timestamp

OpensAtPrice ==
  /\ Len(candlestickData') = Len(candlestickData) + 1
  /\ CurrentCandle'.open = lastTick'.close
  /\ CurrentCandle'.high = lastTick'.close
  /\ CurrentCandle'.low = lastTick'.close
  /\ CurrentCandle'.close = lastTick'.close
  /\ SubSeq(candlestickData', 1, Len(candlestickData)) = candlestickData

TradeInBucketStep ==
  /\ lastTick.source = "trade"
  /\ lastTick'.source = "trade"
  /\ Len(candlestickData) > 0
  /\ bucketStart(lastTick'.timestamp, interval)
       = bucketStart(CurrentCandle.timestamp, interval)

\* C12: a trade tick that falls in the bucket of the current candle adds its
\* quantity to the candle's volume, so the volume is the sum of the trade
\* quantities of the bucket.
C12_TradeVolumeSums ==
  [][TradeInBucketStep =>
       /\ Len(candlestickData') = Len(candlestickData)
       /\ CurrentCandle'.volume = CurrentCandle.volume + lastTick'.volume]_vars

\* The handler of one subscription was given a kline-derived tick by the
\* previous frame and is given a trade-derived tick by this one.
FedByBoth ==
  /\ messageHandlers' = messageHandlers
  /\ \E d \in delivered, d2 \in delivered' :
        /\ d[1] = "messageHandlers"
        /\ d2[1] = "messageHandlers"
        /\ d[3] = d2[3]
        /\ d[2][1] = d2[2][1]
        /\ d[2][2] = "kline"
        /\ d2[2][2] = "trade"

\* C13: the handler of one subscription never receives both kline-derived
\* and trade-derived ticks.
C13_KlineFedOrTradeFed == [][~FedByBoth]_vars

\* C14: for every interval the series holds at most MAX_DATA_POINTS candles,
\* and a step that evicts keeps the newest candles, the last one included.
C14_RetentionCap ==
  [][/\ Len(candlestickData') <= MAX_DATA_POINTS
     /\ (lastTick'.source = "trade" /\ Len(candlestickData) > 0) =>
           /\ CurrentCandle'.timestamp >= CurrentCandle.timestamp
           /\ \A n \in 1 .. Len(candlestickData') - 1 :
                 \E b \in 1 .. Len(candlestickData) :
                    candlestickData[b] = candlestickData'[n]]_vars

Transient(error) ==
  \/ error.status = 0 /\ error.code # ""
  \/ error.status = 429
  \/ error.status \in 500 .. 599

\* C15: a call issues its request at most 1 + 3 times; a request is
\* re-issued only after a network error, a timeout, a 429 or a 5xx, never
\* after another 4xx; and once no retry remains the call rejects with
\* {code, message, timestamp} built from the last error.
C15_RestRetryPolicy ==
  /\ issued <= 1 + retry
  /\ retryCount <= retry
  /\ restState = "waiting" => Transient(lastResponse)
  /\ lastResponse.status \in (400 .. 499) \ {429} => restState = "rejected"
  /\ restState = "rejected" =>
        /\ lastResponse \in Failures
        /\ ~shouldRetry(retryCount, lastResponse)
        /\ rejection.code = lastResponse.status
        /\ rejection.message # ""
        /\ rejection.timestamp # ""

C15_Witness ==
  /\ restState = "rejected"
  /\ issued = 1 + retry
  /\ retryCount = retry
  /\ lastResponse.status = 503
  /\ rejection.code = 503

\* C16: the delay computed for an attempt is at most maxDelay plus the
\* largest jitter, and its part before the jitter is at most maxDelay and
\* never smaller than that of the attempt before.
C16_BackoffBound ==
  [][/\ backoffDelay' <= backoffArgs'.maxDelay + JitterMax
     /\ backoffDelay' - backoffRandom' <= backoffArgs'.maxDelay
     /\ backoffDelay >= 0 =>
           backoffDelay' - backoffRandom' >= backoffDelay - backoffRandom]_vars

C16_Witness ==
  /\ backoffArgs.attempt >= 3
  /\ backoffArgs.baseDelay = 5000
  /\ backoffRandom = JitterMax - 1
  /\ backoffDelay = backoffArgs.maxDelay + JitterMax - 1

\* The frame of this step is a ticker or miniTicker frame of a symbol whose
\* bulk streams are registered.
BulkFrameStep ==
  /\ lastOp'.name = "message"
  /\ lastOp'.e \in {"24hrTicker", "24hrMiniTicker"}
  /\ bulkStreams({lastOp'.symbol}) \subseteq DOMAIN messageHandlers

\* C18: a ticker or miniTicker frame of a symbol subscribed by subscribeBulk
\* is delivered to the handler registered for the symbol's bulk streams.
C18_BulkRouting ==
  [][BulkFrameStep =>
       \E d \in delivered' :
          /\ d[1] = "messageHandlers"
          /\ d[2] \in bulkStreams({lastOp'.symbol})
          /\ d[3] = messageHandlers[d[2]]]_vars

\* C19: whenever a promise returned by connect() resolves, isConnected()
\* returns true, also when connect() was called with no active stream.
C19_ResolvedMeansConnected == resolved => isConnected(Cur)

\* The last status the step passed to the connection handlers is 'connecting'.
ConnectingNotified ==
  notified # <<>> /\ notified[Len(notified)] = "connecting"

\* The step passed one of the statuses that end a connection attempt.
OutcomeNotified ==
  \E i \in DOMAIN notified : notified[i] \in {"connected", "disconnected", "error"}

\* C20: every 'connecting' status is eventually followed by 'connected',
\* 'disconnected' or 'error'.
C20_ConnectingIsFollowed == ConnectingNotified ~> OutcomeNotified

\* The step calls fallbackWebSocketManager.subscribe.
EngagesFallback ==
  \/ lastOp'.name = "errorTimeout" /\ fallbackAttempts' = fallbackAttempts + 1
  \/ lastOp'.name = "subscribeToUpdates" /\ isUsingFallback'

\* The manager is connecting, or waits to retry.
StillTrying ==
  \/ wsState = "CONNECTING"
  \/ connectionInProgress
  \/ isReconnecting
  \/ reconnectTimeout
  \/ timers["retry"] > 0
  \/ timers["catch"] > 0

\* C17: the fallback manager is engaged only after the manager has used up
\* its reconnection attempts, never while it is connecting or retrying.
C17_FallbackAfterExhaustion ==
  [][EngagesFallback =>
       reconnectAttempts >= MAX_RECONNECT_ATTEMPTS /\ ~StillTrying]_vars

\* C21: every HTTP request of getKlines, the first and the retries, carries
\* the requested limit if it is at most 1000 and 1000 otherwise.
C21_KlinesLimitClamped ==
  issued > 0 /\ requestedLimit # NoLimit =>
     /\ sentLimit <= 1000
     /\ requestedLimit <= 1000 => sentLimit = requestedLimit
     /\ requestedLimit > 1000 => sentLimit = 1000

C21_Witness ==
  /\ requestedLimit = 1500
  /\ sentLimit = 1000
  /\ issued = 2
  /\ restState = "inflight"

\* The step is a connect() or subscribe() call made while the socket is
\* CONNECTING.
CallWhileConnecting ==
  /\ wsState = "CONNECTING"
  /\ lastOp'.name \in {"connect", "subscribe"}

\* C22: a connect() or subscribe() call made while a socket is CONNECTING
\* keeps that socket and creates no second one.
C22_ConnectionCoalescing ==
  [][CallWhileConnecting =>
       /\ ~created'
       /\ wsState' = "CONNECTING"
       /\ timers' = timers]_vars

\* The step runs the connectionTimeout callback of a socket that disconnect()
\* dropped; the handlers of such a socket are removed and never run.
StaleCallbackStep == lastOp'.name = "staleTimeout"

\* C23: a callback of a connection attempt that has been replaced or
\* disconnected changes neither the current socket, the in-flight flag, the
\* reconnect counter nor the notified status.
C23_StaleCallbackGuard ==
  [][StaleCallbackStep =>
       /\ wsState' = wsState
       /\ wsStreams' = wsStreams
       /\ connectionInProgress' = connectionInProgress
       /\ reconnectAttempts' = reconnectAttempts
       /\ notified' = <<>>]_vars

\* C24: in every state in which the socket is open the reconnect-attempt
\* counter is 0.
C24_CounterZeroWhileOpen == isConnected(Cur) => reconnectAttempts = 0

\* The step applies the outcome of a getKlines call to the chart series.
HistoryApplied == lastOp'.name = "setData"

\* C25: the outcome of a historical-candle request is applied to the series
\* only if its pair and interval are still the selection and the dashboard
\* is still mounted.
C25_StaleHistoryGuard ==
  [][HistoryApplied => seriesOf' = selection /\ isMounted]_vars

\* The sockets created by the manager that are CONNECTING or OPEN.
LiveSockets ==
  (IF wsState \in {"CONNECTING", "OPEN"} THEN 1 ELSE 0) + liveDropped

\* C26: at every moment at most one socket created by the manager is
\* CONNECTING or OPEN.
C26_SingleLiveSocket == LiveSockets <= 1

\* A socket that was CONNECTING has just been replaced by a new one.
C26_Witness ==
  /\ wsState = "CONNECTING"
  /\ created
  /\ timers["to_subscribe"] > 0

\* The kline topic and the trade topic of the entry are active and carry
\* the entry's handler.
EntryRegistered(key) ==
  LET kline == generateStreamName(key[1], key[2])
      trade == tradeStreamNameOf(key[1])
  IN /\ {kline, trade} \subseteq enhancedStreams
     /\ {kline, trade} \subseteq DOMAIN enhancedHandlers
     /\ enhancedHandlers[kline] = productSubscriptions[key]
     /\ enhancedHandlers[trade] = productSubscriptions[key]

\* C27: every entry of productSubscriptions has its kline topic and its
\* trade topic in activeStreams, with the entry's handler registered.
C27_ProductRegistryConsistent ==
  \A key \in DOMAIN productSubscriptions : EntryRegistered(key)

\* The tick of this step falls in a bucket before the current candle's.
LateTickStep ==
  /\ Len(candlestickData) > 0
  /\ bucketStart(lastTick'.timestamp, interval)
       < bucketStart(CurrentCandle.timestamp, interval)

\* C28: a tick whose bucket is earlier than the last candle's changes neither
\* the high, the low, the close nor the volume of the last candle.
C28_LateTickContained ==
  [][LateTickStep =>
       /\ Len(candlestickData') = Len(candlestickData)
       /\ CurrentCandle'.high = CurrentCandle.high
       /\ CurrentCandle'.low = CurrentCandle.low
       /\ CurrentCandle'.close = CurrentCandle.close
       /\ CurrentCandle'.volume = CurrentCandle.volume]_vars

\* C29: while a trade handler is registered for a symbol, the symbol's trade
\* topic is in the active topic set; chart subscribe and unsubscribe calls
\* for the symbol do not remove it.
C29_TradeTopicSurvives ==
  \A symbol \in DOMAIN tradeHandlers : tradeStreamNameOf(symbol) \in activeStreams

\* C30: a stream a caller disconnected, by disconnect or disconnectAll, has
\* no socket again until a caller subscribes to it.
C30_NoReconnectAfterDisconnect == closedOnPurpose \cap fallbackConnections = {}

====
